---- MODULE Spec2Model ----
(***************************************************************************)
(* flight/assets: Player::create_scene builds the vector scene of a        *)
(* four-player board, render() rasterises it, reads the padded GPU buffer  *)
(* back row by row and writes background.png.                              *)
(*                                                                         *)
(* Numbers.  u32 values are kept as two 16-bit limbs <<hi, lo>> so that    *)
(* the wrap at 2^32 is computed as the machine computes it.  Board         *)
(* coordinates are integers (every coordinate the code produces with       *)
(* DIM = 128 is one); the two radii are kept as fractions <<num, den>>;    *)
(* the incircle centre of a triangle is kept as an unevaluated term.       *)
(* Affine::rotate is given the exact quarter-turn matrices, i.e. the f64   *)
(* rounding of sin/cos at multiples of PI/2 is not represented.            *)
(***************************************************************************)
EXTENDS Integers, Sequences, FiniteSets, TLC

(* ------------------------------ bounds -------------------------------- *)
\* largest texture height the readback loop is run with
MaxHeight == 3
\* number of distinct contents of the mapped buffer
NumPatterns == 2
\* the stride computation is run on every width 0..MaxSmallWidth ...
MaxSmallWidth == 70
\* ... and on every width within EdgeSpan of 2^30 (where width*4 reaches 2^32)
EdgeSpan == 70

(* ------------------------- u32 arithmetic ----------------------------- *)
Base == 256 * 256

\* the u32 with value n, for 0 <= n < 2^31
U32(n) == <<n \div Base, n % Base>>

\* the value of a u32 below 2^31
ToNat(u) == u[1] * Base + u[2]

\* exact product of a u32 and a small factor: three limbs <<top, hi, lo>>
WideMul(u, m) ==
    LET lo == u[2] * m
        hi == u[1] * m + (lo \div Base)
    IN  <<hi \div Base, hi % Base, lo % Base>>

\* exact sum of a three-limb value and a small addend
WideAdd(w, d) ==
    LET lo == w[3] + d
        hi == w[2] + (lo \div Base)
    IN  <<w[1] + (hi \div Base), hi % Base, lo % Base>>

Widen(u) == <<0, u[1], u[2]>>

\* what a u32 register keeps of a three-limb value
Wrap(w) == <<w[2], w[3]>>

Overflows(w) == w[1] > 0

WideLess(a, b) ==
    \/ a[1] < b[1]
    \/ a[1] = b[1] /\ a[2] < b[2]
    \/ a[1] = b[1] /\ a[2] = b[2] /\ a[3] < b[3]

\* u32 % rhs for a small rhs
Rem(u, rhs) == ((u[1] % rhs) * (Base % rhs) + u[2]) % rhs

\* u32::next_multiple_of before the wrap:
\*   match self % rhs { 0 => self, r => self + (rhs - r) }
NextMultipleOfRoundsAlways(u, rhs) == WideAdd(Widen(u), rhs - Rem(u, rhs))

NextMultipleOf(u, rhs) ==
    IF Rem(u, rhs) = 0 THEN Widen(u)
    ELSE WideAdd(Widen(u), rhs - Rem(u, rhs))

Align == 256

\* (width * 4).next_multiple_of(256), with the overflow of either operation
StrideEval(w) ==
    LET prod == WideMul(w, 4)
        next == NextMultipleOf(Wrap(prod), Align)
    IN  [overflow |-> Overflows(prod) \/ Overflows(next),
         value    |-> Wrap(next)]

(* --------------------------- geometry --------------------------------- *)
DIM == 128
DIM_X2 == DIM * 2
DIM_X4 == DIM * 4
\* Cell::RADIUS = DIM * 0.35 and Player::RADIUS = DIM * 0.6, as fractions
CELL_RADIUS == <<DIM * 35, 100>>
PLAYER_RADIUS == <<DIM * 6, 10>>
DIMENSION == DIM * 17

COLORS == <<"red", "yellow", "blue", "green">>

PAdd(p, v) == <<p[1] + v[1], p[2] + v[2]>>
PSub(p, v) == <<p[1] - v[1], p[2] - v[2]>>
ZERO == <<0, 0>>

\* kurbo Affine [a, b, c, d, e, f]: (x, y) |-> (a x + c y + e, b x + d y + f)
IDENTITY == <<1, 0, 0, 1, 0, 0>>

\* cos and sin of q quarter turns (q * PI / 2)
QCos(q) == CASE q = 0 -> 1 [] q = 1 -> 0 [] q = 2 -> -1 [] q = 3 -> 0
QSin(q) == CASE q = 0 -> 0 [] q = 1 -> 1 [] q = 2 -> 0 [] q = 3 -> -1

\* Affine::rotate(th) = [cos, sin, -sin, cos, 0, 0]
AffineRotate(q) == <<QCos(q), QSin(q), -QSin(q), QCos(q), 0, 0>>

ThenTranslate(A, v) == <<A[1], A[2], A[3], A[4], A[5] + v[1], A[6] + v[2]>>

Apply(A, p) == <<A[1] * p[1] + A[3] * p[2] + A[5],
                 A[2] * p[1] + A[4] * p[2] + A[6]>>

None == [type |-> "none"]
Triangle(a, b, c) == [type |-> "triangle", a |-> a, b |-> b, c |-> c]
RectFromOriginSize(o, size) ==
    [type |-> "rect", x0 |-> o[1], y0 |-> o[2],
     x1 |-> o[1] + size[1], y1 |-> o[2] + size[2]]
Circle(center, radius) == [type |-> "circle", center |-> center, radius |-> radius]
BezPath(els) == [type |-> "path", els |-> els]
MoveTo(p) == <<"M", p>>
LineTo(p) == <<"L", p>>
ClosePath == <<"Z", ZERO>>

\* a circle centre: a given point, or the incircle centre of three vertices
At(p) == [of |-> "point", pts |-> <<p>>]
\* Triangle::inscribed_circle().center, left unevaluated
InscribedCenter(t) == [of |-> "incircle", pts |-> <<t.a, t.b, t.c>>]
\* Rect::center()
RectCenter(r) == <<(r.x0 + r.x1) \div 2, (r.y0 + r.y1) \div 2>>

\* Scene::fill / Scene::stroke append one draw command
Fill(affine, color, shape) ==
    [op |-> "fill", affine |-> affine, color |-> color, shape |-> shape, width |-> 0]
Stroke(w, affine, color, shape) ==
    [op |-> "stroke", affine |-> affine, color |-> color, shape |-> shape, width |-> w]

NewCell(kind, color, affine, o) ==
    [kind |-> kind, color |-> color, affine |-> affine, origin |-> o]
NewPlayer(color, affine) == [color |-> color, affine |-> affine]

PlayerColorNoWrapAtFour(index) == COLORS[(index % (Len(COLORS) - 1)) + 1]

\* Player::color
PlayerColor(index) == COLORS[(index % Len(COLORS)) + 1]

Triangle180Mirrored(o) ==
    Triangle(o, PAdd(o, <<0, DIM_X2>>), PAdd(o, <<DIM_X2, DIM_X2>>))

\* the Triangle180 arm of Cell::draw
Triangle180(o) ==
    Triangle(o, PAdd(o, <<0, DIM_X2>>), PAdd(o, <<-DIM_X2, DIM_X2>>))

\* first match of Cell::draw: the triangle of a triangular cell
CellTriangle(cell) ==
    LET o == cell.origin IN
    CASE cell.kind = "Triangle0" ->
           Triangle(o, PAdd(o, <<DIM_X2, 0>>), PAdd(o, <<0, DIM_X2>>))
      [] cell.kind = "Triangle90" ->
           Triangle(o, PAdd(o, <<DIM_X2, 0>>), PAdd(o, <<DIM_X2, DIM_X2>>))
      [] cell.kind = "Triangle180" -> Triangle180(o)
      [] cell.kind = "Triangle270" ->
           Triangle(o, PAdd(o, <<DIM_X2, DIM_X2>>), PAdd(o, <<0, DIM_X2>>))
      [] OTHER -> None

\* second match of Cell::draw: the rectangle of a block cell
CellBlock(cell) ==
    LET o == cell.origin IN
    CASE cell.kind = "VBlock" -> RectFromOriginSize(o, <<DIM, DIM_X2>>)
      [] cell.kind = "HBlock" -> RectFromOriginSize(o, <<DIM_X2, DIM>>)
      [] OTHER -> None

\* <Cell as Drawable>::draw: the commands one cell appends to the scene
CellDraw(cell) ==
    LET tri == CellTriangle(cell)
        blk == CellBlock(cell)
        c0  == At(ZERO)
        c1  == IF tri # None THEN InscribedCenter(tri) ELSE c0
        c2  == IF blk # None THEN At(RectCenter(blk)) ELSE c1
    IN  (IF tri # None THEN <<Fill(cell.affine, cell.color, tri)>> ELSE <<>>)
        \o (IF blk # None THEN <<Fill(cell.affine, cell.color, blk)>> ELSE <<>>)
        \o <<Fill(cell.affine, "white", Circle(c2, CELL_RADIUS))>>

\* <Player as Drawable>::draw: the decoration commands of one player
PlayerDraw(player) ==
    LET A  == player.affine
        p  == <<DIM, DIM>>
        centers == <<p, PAdd(p, <<0, DIM_X2>>), PAdd(p, <<DIM_X2, 0>>),
                     PAdd(p, <<DIM_X2, DIM_X2>>)>>
        \* first outline
        a0 == <<0, DIM_X4 + DIM_X2>>
        a1 == PAdd(a0, <<DIM_X2, -DIM_X2>>)
        a2 == PAdd(a1, <<DIM_X2, 0>>)
        a3 == PAdd(a2, <<0, -DIM_X2>>)
        a4 == PAdd(a3, <<DIM_X2, -DIM_X2>>)
        a5 == PAdd(a4, <<DIM * 5, 0>>)
        path1 == BezPath(<<MoveTo(a0), LineTo(a1), LineTo(a2), LineTo(a3),
                           LineTo(a4), LineTo(a5)>>)
        \* second outline
        b0 == <<DIM_X2, DIM_X4 + DIM_X2>>
        b1 == PAdd(b0, <<DIM_X4, 0>>)
        b2 == PAdd(b1, <<0, -DIM_X4>>)
        b3 == PAdd(b2, <<DIM * 5, 0>>)
        path2 == BezPath(<<MoveTo(b0), LineTo(b1), LineTo(b2), LineTo(b3)>>)
        \* finish arrow
        c0 == <<DIM_X2, DIM_X4 * 2>>
        c1 == PAdd(c0, <<DIM * 5, 0>>)
        c2 == PSub(c1, <<0, DIM>>)
        c3 == PAdd(c2, <<(DIM * 3) \div 2, (DIM * 3) \div 2>>)
        c4 == PAdd(c2, <<0, DIM * 3>>)
        c5 == PSub(c4, <<0, DIM>>)
        c6 == PSub(c5, <<DIM * 5, 0>>)
        path3 == BezPath(<<MoveTo(c0), LineTo(c1), LineTo(c2), LineTo(c3),
                           LineTo(c4), LineTo(c5), LineTo(c6), ClosePath>>)
        \* finish lane
        l0 == <<(DIM * 5) \div 2, (DIM * 17) \div 2>>
    IN  <<Fill(A, player.color,
               RectFromOriginSize(ZERO, <<DIM_X4, DIM_X4>>))>>
        \o [k \in 1..4 |-> Fill(A, "white", Circle(At(centers[k]), PLAYER_RADIUS))]
        \o <<Stroke(5, A, "black", path1),
             Stroke(5, A, "black", path2),
             Fill(A, player.color, path3),
             Stroke(5, A, "black", path3)>>
        \o [k \in 1..6 |->
              Fill(A, "white", Circle(At(PAdd(l0, <<DIM * (k - 1), 0>>)), CELL_RADIUS))]

PlayersWithoutTranslation ==
    [k \in 1..4 |-> NewPlayer(COLORS[k], AffineRotate(k - 1))]

\* the `players` array of Player::create_scene
Players ==
    << NewPlayer(COLORS[1], IDENTITY),
       NewPlayer(COLORS[2], ThenTranslate(AffineRotate(1), <<DIMENSION, 0>>)),
       NewPlayer(COLORS[3], ThenTranslate(AffineRotate(2), <<DIMENSION, DIMENSION>>)),
       NewPlayer(COLORS[4], ThenTranslate(AffineRotate(3), <<0, DIMENSION>>)) >>

(* ----------------------------- state ----------------------------------- *)
VARIABLES
    pc,           \* position in main / render / create_scene
    err,          \* the stage whose error render() returned, or "none"
    exit,         \* result of main: "running", "ok", "error"
    log,          \* the fallible stages performed so far, <<stage, succeeded>>
    checks,       \* build profile: overflow checks on (debug) or off (release)
    width,        \* texture width, a u32
    height,       \* texture height
    players,      \* create_scene: the players array
    i,            \* create_scene: index of the player being emitted
    cells,        \* create_scene: the cells vector of the current player
    origin,       \* create_scene: running origin
    color_index,  \* create_scene: running palette index
    drawn,        \* create_scene: cells already drawn by `for cell in cells`
    scene,        \* the Scene: draw commands in insertion order
    emitter,      \* for each command of the scene, which call appended it
    stride,       \* row pitch of the readback buffer, a u32
    data,         \* the mapped range of the readback buffer
    row,          \* readback loop counter
    bytes,        \* the packed output buffer
    file          \* background.png as written so far

vars == <<pc, err, exit, log, checks, width, height, players, i, cells, origin,
          color_index, drawn, scene, emitter, stride, data, row, bytes, file>>

sceneVars == <<players, i, cells, origin, color_index, drawn, scene, emitter>>
readbackVars == <<stride, data, row, bytes, file>>
runVars == <<err, exit, log, checks, width, height>>

Unset == <<>>
NoFile == [created |-> FALSE, header |-> Unset, pixels |-> Unset, finished |-> FALSE]

NUM_PLAYERS == Len(Players)
CELLS_BEFORE_LOOP == 8
LOOP_COUNT == 5
CELLS_PER_PLAYER == CELLS_BEFORE_LOOP + LOOP_COUNT

(* ------------------------- Player::create_scene ------------------------ *)
SeedColorIndexSamePhase(idx) == Len(COLORS) - 1

\* let mut color_index = i + Self::COLORS.len() - 1
SeedColorIndex(idx) == idx + Len(COLORS) - 1

Tags(cmds, src, n) ==
    [k \in 1..Len(cmds) |-> [player |-> i, src |-> src, cell |-> n]]

\* let mut scene = Scene::new(); let players = [...]
CreatePlayers ==
    /\ pc = "create_scene"
    /\ scene' = <<>>
    /\ emitter' = <<>>
    /\ players' = Players
    /\ i' = 0
    /\ pc' = "begin_player"
    /\ UNCHANGED <<cells, origin, color_index, drawn>>
    /\ UNCHANGED runVars /\ UNCHANGED readbackVars

\* loop head and the three `let mut` of the loop body
BeginPlayer ==
    /\ pc = "begin_player"
    /\ i < NUM_PLAYERS
    /\ cells' = <<>>
    /\ drawn' = 0
    /\ origin' = <<DIM_X2, DIM_X4>>
    /\ color_index' = SeedColorIndex(i)
    /\ pc' = "push0"
    /\ UNCHANGED <<players, i, scene, emitter>>
    /\ UNCHANGED runVars /\ UNCHANGED readbackVars

\* cells.push(Cell::new(kind, Self::color(color_index), player.affine, origin))
\* followed by the updates of origin and color_index up to the next push
Push(at, kind, delta, inc, next) ==
    /\ pc = at
    /\ cells' = Append(cells, NewCell(kind, PlayerColor(color_index),
                                      players[i + 1].affine, origin))
    /\ origin' = PAdd(origin, delta)
    /\ color_index' = color_index + inc
    /\ pc' = next
    /\ UNCHANGED <<players, i, drawn, scene, emitter>>
    /\ UNCHANGED runVars /\ UNCHANGED readbackVars

Push0 == Push("push0", "Triangle180", <<0, 0>>, 1, "push1")
Push1 == Push("push1", "VBlock", <<DIM, 0>>, 1, "push2")
Push2NoAdvance == Push("push2", "VBlock", <<0, 0>>, 1, "push3")
Push2 == Push("push2", "VBlock", <<DIM, 0>>, 1, "push3")
Push3 == Push("push3", "Triangle270", <<0, 0>>, 1, "push4")
Push4 == Push("push4", "Triangle90", <<0, -DIM>>, 1, "push5")
Push5 == Push("push5", "HBlock", <<0, -DIM>>, 1, "push6")
Push6 == Push("push6", "HBlock", <<DIM_X2, -DIM_X2>>, 1, "push7")
Push7 == Push("push7", "Triangle180", <<0, 0>>, 0, "push_loop")

\* for _ in 0..5 { color_index += 1; cells.push(VBlock ...); origin += (DIM, 0) }
LoopPush ==
    /\ pc = "push_loop"
    /\ Len(cells) - CELLS_BEFORE_LOOP < LOOP_COUNT
    /\ color_index' = color_index + 1
    /\ cells' = Append(cells, NewCell("VBlock", PlayerColor(color_index + 1),
                                      players[i + 1].affine, origin))
    /\ origin' = PAdd(origin, <<DIM, 0>>)
    /\ pc' = IF Len(cells) + 1 - CELLS_BEFORE_LOOP = LOOP_COUNT
             THEN "draw_cells" ELSE "push_loop"
    /\ UNCHANGED <<players, i, drawn, scene, emitter>>
    /\ UNCHANGED runVars /\ UNCHANGED readbackVars

\* for cell in cells { cell.draw(&mut scene); }
DrawCell ==
    /\ pc = "draw_cells"
    /\ drawn < Len(cells)
    /\ LET cmds == CellDraw(cells[drawn + 1]) IN
         /\ scene' = scene \o cmds
         /\ emitter' = emitter \o Tags(cmds, "cell", drawn)
    /\ drawn' = drawn + 1
    /\ pc' = IF drawn + 1 = Len(cells) THEN "draw_player" ELSE "draw_cells"
    /\ UNCHANGED <<players, i, cells, origin, color_index>>
    /\ UNCHANGED runVars /\ UNCHANGED readbackVars

Decorated(p) == \E k \in 1..Len(emitter) :
                   emitter[k].player = p /\ emitter[k].src = "player"

DrawPlayerBeforeCells ==
    \/ /\ pc = "draw_cells"
       /\ drawn = 0
       /\ ~Decorated(i)
       /\ LET cmds == PlayerDraw(players[i + 1]) IN
            /\ scene' = scene \o cmds
            /\ emitter' = emitter \o Tags(cmds, "player", -1)
       /\ UNCHANGED <<pc, players, i, cells, origin, color_index, drawn>>
       /\ UNCHANGED runVars /\ UNCHANGED readbackVars
    \/ /\ pc = "draw_player"
       /\ i' = i + 1
       /\ cells' = <<>>
       /\ pc' = "begin_player"
       /\ UNCHANGED <<players, origin, color_index, drawn, scene, emitter>>
       /\ UNCHANGED runVars /\ UNCHANGED readbackVars

\* player.draw(&mut scene); end of the loop body (cells is gone)
DrawPlayer ==
    /\ pc = "draw_player"
    /\ LET cmds == PlayerDraw(players[i + 1]) IN
         /\ scene' = scene \o cmds
         /\ emitter' = emitter \o Tags(cmds, "player", -1)
    /\ i' = i + 1
    /\ cells' = <<>>
    /\ pc' = "begin_player"
    /\ UNCHANGED <<players, origin, color_index, drawn>>
    /\ UNCHANGED runVars /\ UNCHANGED readbackVars

\* Ok(scene), back in render() at `let scene = Player::create_scene()?`
SceneReturn ==
    /\ pc = "begin_player"
    /\ i = NUM_PLAYERS
    /\ log' = Append(log, <<"create_scene", TRUE>>)
    /\ pc' = "render_to_texture"
    /\ UNCHANGED <<err, exit, checks, width, height>>
    /\ UNCHANGED sceneVars /\ UNCHANGED readbackVars

SceneNext ==
    \/ CreatePlayers \/ BeginPlayer
    \/ Push0 \/ Push1 \/ Push2 \/ Push3 \/ Push4 \/ Push5 \/ Push6 \/ Push7
    \/ LoopPush \/ DrawCell \/ DrawPlayer \/ SceneReturn

(* ------------------------------ render --------------------------------- *)
\* the `?` after a fallible call: go on, or return the error
Try(ok, stage, next) ==
    IF ok THEN pc' = next /\ err' = err
          ELSE pc' = "render_err" /\ err' = stage

\* RenderContext::new(), context.device(None).await.ok_or_else(..)?
AcquireDevice ==
    /\ pc = "device"
    /\ \E ok \in BOOLEAN :
         /\ log' = Append(log, <<"device", ok>>)
         /\ Try(ok, "device", "renderer")
    /\ UNCHANGED <<exit, checks, width, height>>
    /\ UNCHANGED sceneVars /\ UNCHANGED readbackVars

\* Renderer::new(..).or_else(|_| bail!(..))?
CreateRenderer ==
    /\ pc = "renderer"
    /\ \E ok \in BOOLEAN :
         /\ log' = Append(log, <<"renderer", ok>>)
         /\ Try(ok, "renderer", "create_scene")
    /\ UNCHANGED <<exit, checks, width, height>>
    /\ UNCHANGED sceneVars /\ UNCHANGED readbackVars

RenderToTextureUnchecked ==
    /\ pc = "render_to_texture"
    /\ \E ok \in BOOLEAN :
         /\ log' = Append(log, <<"render_to_texture", ok>>)
         /\ pc' = "stride"
         /\ err' = err
    /\ UNCHANGED <<exit, checks, width, height>>
    /\ UNCHANGED sceneVars /\ UNCHANGED readbackVars

\* create_texture, create_view, renderer.render_to_texture(..).or_else(..)?
RenderToTexture ==
    /\ pc = "render_to_texture"
    /\ \E ok \in BOOLEAN :
         /\ log' = Append(log, <<"render_to_texture", ok>>)
         /\ Try(ok, "render_to_texture", "stride")
    /\ UNCHANGED <<exit, checks, width, height>>
    /\ UNCHANGED sceneVars /\ UNCHANGED readbackVars

\* let stride = (width * 4).next_multiple_of(256);
\* an overflow panics when overflow checks are on and wraps when they are off
ComputeStride ==
    /\ pc = "stride"
    /\ LET r == StrideEval(width) IN
         IF r.overflow /\ checks
         THEN pc' = "panic" /\ stride' = stride
         ELSE pc' = "copy_submit" /\ stride' = r.value
    /\ UNCHANGED <<data, row, bytes, file>>
    /\ UNCHANGED runVars /\ UNCHANGED sceneVars

\* create_buffer, copy_texture_to_buffer(bytes_per_row = stride), queue.submit
CopySubmit ==
    /\ pc = "copy_submit"
    /\ log' = Append(log, <<"copy_submit", TRUE>>)
    /\ pc' = "map"
    /\ UNCHANGED <<err, exit, checks, width, height>>
    /\ UNCHANGED sceneVars /\ UNCHANGED readbackVars

\* byte k (0-based) of the p-th buffer content
PatternByte(p, k) == (k * (2 * p + 1) + (k \div Align) * 7 * p) % 256

MappedData(p, n) == [k \in 1..n |-> PatternByte(p, k - 1)]

\* slice.map_async + block_on_wgpu(device, rx.receive()): the channel closes,
\* the mapping fails, or the buffer is mapped; then slice.get_mapped_range()
MapBuffer ==
    /\ pc = "map"
    /\ \E outcome \in {"mapped", "map_failed", "closed"} :
         /\ log' = Append(log, <<"map", outcome = "mapped">>)
         /\ Try(outcome = "mapped", "map", "alloc")
         /\ IF outcome = "mapped"
            THEN \E p \in 1..NumPatterns :
                   data' = MappedData(p, ToNat(stride) * height)
            ELSE data' = data
    /\ UNCHANGED <<exit, checks, width, height>>
    /\ UNCHANGED <<stride, row, bytes, file>>
    /\ UNCHANGED sceneVars

\* Vec::with_capacity((width * height * 4).try_into()?)
AllocBytes ==
    /\ pc = "alloc"
    /\ \E ok \in BOOLEAN :
         /\ log' = Append(log, <<"readback", ok>>)
         /\ Try(ok, "readback", "rows")
    /\ bytes' = <<>>
    /\ row' = 0
    /\ UNCHANGED <<exit, checks, width, height>>
    /\ UNCHANGED <<stride, data, file>>
    /\ UNCHANGED sceneVars

RowSliceIgnoringStride(d, r, s, w) ==
    LET start == r * (ToNat(w) * 4) IN
    SubSeq(d, start + 1, start + ToNat(w) * 4)

\* &data[start..start + (width * 4) as usize] with start = row * stride
RowSlice(d, r, s, w) ==
    LET start == r * ToNat(s) IN
    SubSeq(d, start + 1, start + ToNat(w) * 4)

\* one iteration of `for row in 0..height`
ReadbackRow ==
    /\ pc = "rows"
    /\ row < height
    /\ \E ok \in BOOLEAN :
         IF ok
         THEN /\ bytes' = bytes \o RowSlice(data, row, stride, width)
              /\ row' = row + 1
              /\ UNCHANGED <<pc, err, log>>
         ELSE /\ log' = [log EXCEPT ![Len(log)] = <<"readback", FALSE>>]
              /\ pc' = "render_err"
              /\ err' = "readback"
              /\ UNCHANGED <<bytes, row>>
    /\ UNCHANGED <<exit, checks, width, height>>
    /\ UNCHANGED <<stride, data, file>>
    /\ UNCHANGED sceneVars

\* loop exit; File::create(Path::new("background.png"))?
CreateFile ==
    /\ pc = "rows"
    /\ row = height
    /\ \E ok \in BOOLEAN :
         /\ log' = Append(log, <<"file_create", ok>>)
         /\ Try(ok, "file_create", "write_header")
         /\ file' = IF ok THEN [NoFile EXCEPT !.created = TRUE] ELSE file
    /\ UNCHANGED <<exit, checks, width, height>>
    /\ UNCHANGED <<stride, data, row, bytes>>
    /\ UNCHANGED sceneVars

\* png::Encoder::new(&mut file, width, height); set_color; set_depth; write_header()?
WriteHeader ==
    /\ pc = "write_header"
    /\ \E ok \in BOOLEAN :
         /\ log' = Append(log, <<"write_header", ok>>)
         /\ Try(ok, "write_header", "write_image_data")
         /\ file' = IF ok
                    THEN [file EXCEPT !.header =
                            [width |-> ToNat(width), height |-> height,
                             color |-> "Rgba", depth |-> 8]]
                    ELSE file
    /\ UNCHANGED <<exit, checks, width, height>>
    /\ UNCHANGED <<stride, data, row, bytes>>
    /\ UNCHANGED sceneVars

\* writer.write_image_data(&bytes)?
WriteImageData ==
    /\ pc = "write_image_data"
    /\ \E io \in BOOLEAN :
         LET ok == io /\ Len(bytes) = ToNat(width) * height * 4 IN
         /\ log' = Append(log, <<"write_image_data", ok>>)
         /\ Try(ok, "write_image_data", "finish")
         /\ file' = IF ok THEN [file EXCEPT !.pixels = bytes] ELSE file
    /\ UNCHANGED <<exit, checks, width, height>>
    /\ UNCHANGED <<stride, data, row, bytes>>
    /\ UNCHANGED sceneVars

\* writer.finish()?; Ok(())
Finish ==
    /\ pc = "finish"
    /\ \E ok \in BOOLEAN :
         /\ log' = Append(log, <<"finish", ok>>)
         /\ Try(ok, "finish", "render_ok")
         /\ file' = IF ok THEN [file EXCEPT !.finished = TRUE] ELSE file
    /\ UNCHANGED <<exit, checks, width, height>>
    /\ UNCHANGED <<stride, data, row, bytes>>
    /\ UNCHANGED sceneVars

\* main: pollster::block_on(render())?; Ok(())
MainReturn ==
    /\ pc \in {"render_ok", "render_err"}
    /\ exit' = IF pc = "render_ok" THEN "ok" ELSE "error"
    /\ pc' = "exited"
    /\ UNCHANGED <<err, log, checks, width, height>>
    /\ UNCHANGED sceneVars /\ UNCHANGED readbackVars

(* --------------------------- specifications ----------------------------- *)
\* texture widths the pipeline is run with: rows with 4 bytes, 252 bytes
\* (4 of padding), 256 bytes (no padding) and 260 bytes (252 of padding)
ReadbackWidths == {1, 2, 63, 64, 65}

Blank ==
    /\ err = "none" /\ exit = "running"
    /\ players = <<>> /\ i = 0 /\ cells = <<>> /\ origin = ZERO
    /\ color_index = 0 /\ drawn = 0 /\ scene = <<>> /\ emitter = <<>>
    /\ stride = Unset /\ data = <<>> /\ row = 0 /\ bytes = <<>>
    /\ file = NoFile

\* the whole program; the texture extent, Player::DIMENSION in the program,
\* is drawn from small sets so that the readback loop can be run
Init ==
    /\ pc = "device"
    /\ log = <<>>
    /\ checks \in BOOLEAN
    /\ width \in {U32(w) : w \in ReadbackWidths}
    /\ height \in 1..MaxHeight
    /\ Blank

Next ==
    \/ AcquireDevice \/ CreateRenderer
    \/ CreatePlayers \/ BeginPlayer
    \/ Push0 \/ Push1 \/ Push2 \/ Push3 \/ Push4 \/ Push5 \/ Push6 \/ Push7
    \/ LoopPush \/ DrawCell \/ DrawPlayer \/ SceneReturn
    \/ RenderToTexture \/ ComputeStride \/ CopySubmit \/ MapBuffer
    \/ AllocBytes \/ ReadbackRow \/ CreateFile
    \/ WriteHeader \/ WriteImageData \/ Finish \/ MainReturn

Spec == Init /\ [][Next]_vars

\* Player::create_scene as render() calls it, with the program's own extent
SceneInit ==
    /\ pc = "create_scene"
    /\ log = <<<<"device", TRUE>>, <<"renderer", TRUE>>>>
    /\ checks \in BOOLEAN
    /\ width = U32(DIMENSION)
    /\ height = DIMENSION
    /\ Blank

SceneSpec == SceneInit /\ [][SceneNext]_vars

TwoPow30 == Base * (Base \div 4)

\* u32 widths the stride computation is run on
StrideWidths ==
    {U32(w) : w \in 0..MaxSmallWidth}
    \cup {U32(DIMENSION)}
    \cup {U32(TwoPow30 - d) : d \in 1..EdgeSpan}
    \cup {U32(TwoPow30 + d) : d \in 0..EdgeSpan}
    \cup {<<Base \div 2, 0>>, <<Base - 1, Base - 1>>}

\* the stride computation of render() on any u32 width
StrideInit ==
    /\ pc = "stride"
    /\ log = <<<<"device", TRUE>>, <<"renderer", TRUE>>,
               <<"create_scene", TRUE>>, <<"render_to_texture", TRUE>>>>
    /\ checks \in BOOLEAN
    /\ width \in StrideWidths
    /\ height = 1
    /\ Blank

StrideNext == ComputeStride

StrideSpec == StrideInit /\ [][StrideNext]_vars

(* ------------------------------ bounds of the probes -------------------- *)
\* local points probed for the player transforms: multiples of DIM with
\* coordinates from -ProbeSpan * DIM to ProbeSpan * DIM
ProbeSpan == 18

(* ------------------------------ properties ------------------------------ *)
PaletteIndex(c) == CHOOSE n \in 0..(Len(COLORS) - 1) : COLORS[n + 1] = c

\* C1: the k-th cell (0-based) pushed for player i has colour
\* palette[(i + 3 + k) mod 4], for every player and every k in 0..12.
C1_ColorCycle ==
    \A k \in 1..Len(cells) :
        cells[k].color = COLORS[((i + 3 + (k - 1)) % 4) + 1]

C1_Witness == i = 3 /\ Len(cells) = CELLS_PER_PLAYER

IsCellCmd(k) == emitter[k].src = "cell"
IsDecoration(k) == emitter[k].src = "player"

\* C2: in the scene, all cell commands of a player precede all decoration
\* commands of that player, and every command of player N precedes every
\* command of player N+1.
C2_PaintingOrder ==
    /\ Len(emitter) = Len(scene)
    /\ \A a, b \in 1..Len(scene) :
         /\ (emitter[a].player = emitter[b].player
               /\ IsCellCmd(a) /\ IsDecoration(b)) => a < b
         /\ (emitter[b].player = emitter[a].player + 1) => a < b
    /\ pc = "render_to_texture" =>
         \A n \in 0..3 :
            /\ \E a \in 1..Len(scene) : emitter[a].player = n /\ IsCellCmd(a)
            /\ \E b \in 1..Len(scene) : emitter[b].player = n /\ IsDecoration(b)

C2_Witness == pc = "render_to_texture" /\ Len(scene) > 0

StrideSet == stride # Unset

StrideProperties ==
    LET bytesPerRow == WideMul(width, 4)
        s == Widen(stride)
    IN  /\ ~WideLess(s, bytesPerRow)
        /\ Rem(stride, Align) = 0
        /\ WideLess(s, WideAdd(bytesPerRow, Align))
        /\ (Rem(Wrap(bytesPerRow), Align) = 0 => s = bytesPerRow)

\* C3 (as stated): for any u32 width the computed stride is >= width*4, a
\* multiple of 256 and less than 256 above width*4, and equals width*4 when
\* that is already a multiple of 256.
C3_StrideAnyWidth == StrideSet => StrideProperties

\* largest width whose row, rounded up to 256, still fits a u32: 2^30 - 64
WidthFits == ~WideLess(<<0, Base - 1, Base - Align>>, WideMul(width, 4))

\* C3 (amended): for every u32 width with width*4 <= 2^32 - 256 the stride is
\* computed without overflow, is >= width*4, is a multiple of 256, is less
\* than 256 above width*4, and equals width*4 when that is a multiple of 256.
C3_StrideWhenRowFits ==
    WidthFits => /\ pc # "panic"
                 /\ (pc # "stride" => StrideSet)
                 /\ (StrideSet => StrideProperties)

C3_Witness == pc = "copy_submit" /\ width = U32(64) /\ stride = U32(Align)

\* C4: after the readback loop the output has exactly width*height*4 bytes
\* and output[r*width*4 + j] = data[r*stride + j] for every row r and every
\* j below width*4: rows in order, width*4 bytes each, no padding byte.
C4_Readback ==
    row = height =>
      LET w4 == ToNat(width) * 4
          s  == ToNat(stride)
      IN  /\ Len(bytes) = w4 * height
          /\ \A r \in 0..(height - 1) : \A j \in 0..(w4 - 1) :
                bytes[r * w4 + j + 1] = data[r * s + j + 1]

C4_Witness ==
    /\ pc = "rows" /\ row = height /\ height >= 2
    /\ width = U32(65) /\ ToNat(stride) > ToNat(width) * 4

\* C5: the first command of the scene fills the Triangle180 cell of player 0,
\* a triangle with local vertices (256,512), (256,768), (0,768) in that
\* order, under the identity transform.
C5_FirstCell ==
    /\ (i = 0 /\ Len(cells) >= 1) => cells[1].kind = "Triangle180"
    /\ Len(scene) >= 1 =>
         /\ emitter[1] = [player |-> 0, src |-> "cell", cell |-> 0]
         /\ scene[1].op = "fill"
         /\ scene[1].affine = IDENTITY
         /\ scene[1].shape =
              Triangle(<<256, 512>>, <<256, 768>>, <<0, 768>>)

C5_Witness == Len(scene) >= 1 /\ DIM = 128

Stages == <<"device", "renderer", "create_scene", "render_to_texture",
            "copy_submit", "map", "readback", "file_create", "write_header",
            "write_image_data", "finish">>

\* C6: a failed stage is the last stage performed, its error is what render
\* returns and main exits with an error; the stages run at most once each in
\* the order of Stages, and main exits with Ok only after all of them ran.
C6_FailFast ==
    /\ Len(log) <= Len(Stages)
    /\ \A k \in 1..Len(log) :
         /\ log[k][1] = Stages[k]
         /\ ~log[k][2] => /\ k = Len(log)
                          /\ pc \in {"render_err", "exited"}
                          /\ err = log[k][1]
                          /\ exit # "ok"
                          /\ (pc = "exited" => exit = "error")
    /\ exit = "ok" => /\ Len(log) = Len(Stages)
                      /\ \A k \in 1..Len(log) : log[k][2]
                      /\ err = "none"
    /\ exit = "error" => \E k \in 1..Len(log) : ~log[k][2]

C6_Witness == exit = "error" /\ err = "file_create" /\ ~file.created

IsBackground(k) ==
    /\ IsDecoration(k)
    /\ scene[k].op = "fill"
    /\ scene[k].shape = RectFromOriginSize(ZERO, <<DIM_X4, DIM_X4>>)

IsCellMarker(k) ==
    /\ IsCellCmd(k)
    /\ scene[k].color = "white"
    /\ scene[k].shape.type = "circle"

\* C7 (as stated): the background fill of a player is emitted before the
\* white marker circles of that player's cells.
C7_BackgroundBeforeMarkers ==
    \A a, b \in 1..Len(scene) :
        (emitter[a].player = emitter[b].player
           /\ IsBackground(a) /\ IsCellMarker(b)) => a < b

\* C7 (amended): the background fill of a player is emitted after the white
\* marker circles of all of that player's cells.
C7_BackgroundAfterMarkers ==
    /\ \A a, b \in 1..Len(scene) :
         (emitter[a].player = emitter[b].player
            /\ IsBackground(a) /\ IsCellMarker(b)) => b < a
    /\ \A a \in 1..Len(scene) :
         IsBackground(a) =>
            Cardinality({b \in 1..Len(scene) :
                           IsCellMarker(b)
                           /\ emitter[b].player = emitter[a].player})
              = CELLS_PER_PLAYER

C7_Witness == \E a \in 1..Len(scene) : IsBackground(a) /\ emitter[a].player = 3

\* C8 (as stated): the fourth cell, the Triangle270, has the origin of the
\* third cell, (3*DIM, 4*DIM).
C8_Triangle270AtThirdOrigin ==
    Len(cells) >= 4 =>
      /\ cells[4].kind = "Triangle270"
      /\ cells[4].origin = cells[3].origin
      /\ cells[4].origin = <<DIM * 3, DIM_X4>>

\* C8 (amended): the third cell is a VBlock at (3*DIM, 4*DIM) and the fourth
\* cell, the Triangle270, is one DIM to its right, at (4*DIM, 4*DIM).
C8_Triangle270Advanced ==
    Len(cells) >= 4 =>
      /\ cells[3].kind = "VBlock"
      /\ cells[3].origin = <<DIM * 3, DIM_X4>>
      /\ cells[4].kind = "Triangle270"
      /\ cells[4].origin = PAdd(cells[3].origin, <<DIM, 0>>)
      /\ cells[4].origin = <<DIM_X4, DIM_X4>>

C8_Witness == Len(cells) >= 4 /\ i = 2

CENTRE == <<DIMENSION \div 2, DIMENSION \div 2>>

\* a quarter turn about the board centre, in the sense of Affine::rotate(PI/2)
TurnAboutCentre(p) ==
    <<CENTRE[1] - (p[2] - CENTRE[2]), CENTRE[2] + (p[1] - CENTRE[1])>>

RECURSIVE Turns(_, _)
Turns(k, p) == IF k = 0 THEN p ELSE TurnAboutCentre(Turns(k - 1, p))

ProbePoints ==
    {<<x * DIM, y * DIM>> : x \in (-ProbeSpan)..ProbeSpan, y \in (-ProbeSpan)..ProbeSpan}

\* the points that fix a shape
ShapePoints(sh) ==
    CASE sh.type = "triangle" -> <<sh.a, sh.b, sh.c>>
      [] sh.type = "rect" -> <<<<sh.x0, sh.y0>>, <<sh.x1, sh.y0>>,
                               <<sh.x1, sh.y1>>, <<sh.x0, sh.y1>>>>
      [] sh.type = "circle" -> sh.center.pts
      [] sh.type = "path" -> [k \in 1..Len(sh.els) |-> sh.els[k][2]]

\* where a command's shape lands on the board
WorldPoints(cmd) ==
    LET ps == ShapePoints(cmd.shape) IN
    [k \in 1..Len(ps) |-> Apply(cmd.affine, ps[k])]

HomeCorners(k) ==
    {Apply(players[k + 1].affine, c) :
        c \in {ZERO, <<DIM_X4, 0>>, <<DIM_X4, DIM_X4>>, <<0, DIM_X4>>}}

Min(S) == CHOOSE m \in S : \A n \in S : m <= n
Max(S) == CHOOSE m \in S : \A n \in S : m >= n
Xs(S) == {c[1] : c \in S}
Ys(S) == {c[2] : c \in S}

HomesDisjoint(k, l) ==
    \/ Max(Xs(HomeCorners(k))) <= Min(Xs(HomeCorners(l)))
    \/ Max(Xs(HomeCorners(l))) <= Min(Xs(HomeCorners(k)))
    \/ Max(Ys(HomeCorners(k))) <= Min(Ys(HomeCorners(l)))
    \/ Max(Ys(HomeCorners(l))) <= Min(Ys(HomeCorners(k)))

BoardCorners == <<ZERO, <<DIMENSION, 0>>, <<DIMENSION, DIMENSION>>, <<0, DIMENSION>>>>

CMDS_PER_PLAYER == 2 * CELLS_PER_PLAYER + Len(PlayerDraw(Players[1]))

IsCellBase(k) == IsCellCmd(k) /\ scene[k].shape.type # "circle"

\* the palette indices of the cells in emission order
CellPhases ==
    LET base == SelectSeq([k \in 1..Len(scene) |-> k], IsCellBase)
    IN  [k \in 1..Len(base) |-> PaletteIndex(scene[base[k]].color)]

\* C10: over all cells in emission order, each cell's palette index is the
\* previous cell's plus one modulo 4, also across player boundaries and from
\* the last cell of player 3 round to the first cell of player 0; the scene
\* has 52 cells and the four players start on four different palette entries.
C10_GlobalColorCycle ==
    LET ph == CellPhases
        n  == Len(ph)
    IN  /\ \A k \in 1..(n - 1) : ph[k + 1] = (ph[k] + 1) % Len(COLORS)
        /\ \A k \in 1..(n - 1) : ph[k + 1] # ph[k]
        /\ pc = "render_to_texture" =>
             /\ n = NUM_PLAYERS * CELLS_PER_PLAYER
             /\ ph[1] = (ph[n] + 1) % Len(COLORS)
             /\ Cardinality({ph[q * CELLS_PER_PLAYER + 1] :
                               q \in 0..(NUM_PLAYERS - 1)}) = NUM_PLAYERS

C10_Witness ==
    /\ pc = "render_to_texture"
    /\ Len(CellPhases) = NUM_PLAYERS * CELLS_PER_PLAYER

====
